---- MODULE Spec2Model ----
(***************************************************************************)
(* johndeere/mixins/fields.py: FieldsMixin.get_fields and                  *)
(* FieldsMixin.get_field, the two field endpoints of the client.           *)
(*                                                                         *)
(* Each call is a sequence of steps of one thread: binding the arguments,  *)
(* building the URL, the record_filter check, self.private.get(url),       *)
(* response.raise_for_status() and response.json().  The HTTP client, its  *)
(* responses and the registration of new record statuses are the           *)
(* environment.                                                            *)
(*                                                                         *)
(* Python values: a str is a TLA+ string; an optional value (x | None) is  *)
(* a sequence of length 0 (None) or 1; an `int | str` is the record        *)
(* IntArg(n) or StrArg(s); a yarl URL is a record of its origin, its path  *)
(* segments and its query, a sequence of <<key, value>> pairs.             *)
(***************************************************************************)
EXTENDS Integers, Sequences, FiniteSets, TLC

VARIABLES
    RecordStatuses,  \* the values `x in RecordStatuses` accepts
    BASE_URL,        \* self.BASE_URL
    private,         \* self.private, the HTTP client of the instance
    pc,              \* pc[t]: where thread t stands in its call
    args,            \* args[t]: the arguments of t's call, as passed
    org_id,          \* org_id[t]: the local org_id after str()
    field_id,        \* field_id[t]: the local field_id after str()
    record_filter,   \* record_filter[t]: the parameter, default applied
    url,             \* url[t]: the local url
    response,        \* response[t]: the local response (None or one Response)
    outcome,         \* outcome[t]: how t's call ended
    calls,           \* calls[t]: the client methods t's call invoked, in order
    sent,            \* sent[t]: the URLs t's call passed to private.get
    raised,          \* raised[t]: the errors the client raised in t's call
    prev,            \* prev[t]: t's previous call, when the new one is related to it
    entered          \* entered[t]: RecordStatuses when t's call began

vars == <<RecordStatuses, BASE_URL, private, pc, args, org_id, field_id,
          record_filter, url, response, outcome, calls, sent, raised, prev, entered>>

self_vars  == <<BASE_URL, private>>

-----------------------------------------------------------------------------
(* Bounds and input sets *)

\* The largest integer organization ID a caller passes.
MaxOrgId == 12

Threads == {"t1", "t2"}
Main    == {"t1"}

None == << >>
Some(x) == << x >>

IntArg(n) == [isInt |-> TRUE,  n |-> n, s |-> ""]
StrArg(s) == [isInt |-> FALSE, n |-> 0, s |-> s]

-----------------------------------------------------------------------------
(* str(): the decimal text of an integer, the string itself for a str *)

Digit(d) ==
    CASE d = 0 -> "0" [] d = 1 -> "1" [] d = 2 -> "2" [] d = 3 -> "3"
      [] d = 4 -> "4" [] d = 5 -> "5" [] d = 6 -> "6" [] d = 7 -> "7"
      [] d = 8 -> "8" [] d = 9 -> "9"

RECURSIVE Decimal(_)
Decimal(n) == IF n < 10 THEN Digit(n) ELSE Decimal(n \div 10) \o Digit(n % 10)

\* str() that pads an integer with zeros to three digits
str_padded(x) ==
    IF x.isInt
    THEN IF x.n < 0 THEN "-" \o Decimal(0 - x.n)
         ELSE IF x.n < 10 THEN "00" \o Decimal(x.n)
         ELSE IF x.n < 100 THEN "0" \o Decimal(x.n)
         ELSE Decimal(x.n)
    ELSE x.s

str(x) ==
    IF x.isInt
    THEN IF x.n < 0 THEN "-" \o Decimal(0 - x.n) ELSE Decimal(x.n)
    ELSE x.s

-----------------------------------------------------------------------------
(* The inputs *)

OrgIds == {IntArg(MaxOrgId), IntArg(-3), StrArg(Decimal(MaxOrgId)), StrArg("007")}

FieldNames  == {None, Some("North40"), Some("")}
FarmNames   == {None, Some("Home")}
ClientNames == {None, Some("Acme")}

\* record_filter as passed: None when the caller omits the argument.
Registrable   == {"PENDING"}
RecordFilters == {None, Some("ALL"), Some("ACTIVE"), Some("ARCHIVED"),
                  Some("PENDING"), Some("BOGUS")}

EmbedNone    == [isList |-> FALSE, s |-> None, l |-> << >>]
EmbedStr(s)  == [isList |-> FALSE, s |-> Some(s), l |-> << >>]
EmbedList(l) == [isList |-> TRUE,  s |-> None, l |-> l]
Embeds == {EmbedNone, EmbedStr("farms"), EmbedList(<<"clients", "farms">>)}

FieldIds == {"abc-guid", "42"}

NoArgs == [op |-> "none", org_id |-> StrArg(""), field_name |-> None,
           farm_name |-> None, client_name |-> None, record_filter |-> None,
           embed |-> EmbedNone, field_id |-> None]

GetFieldsArgs ==
    {[op |-> "get_fields", org_id |-> o, field_name |-> fn, farm_name |-> fa,
      client_name |-> cl, record_filter |-> rf, embed |-> em, field_id |-> None] :
        o \in OrgIds, fn \in FieldNames, fa \in FarmNames, cl \in ClientNames,
        rf \in RecordFilters, em \in Embeds}

\* The calls of the threads that run side by side
ThreadArgs ==
    {[op |-> "get_fields", org_id |-> o, field_name |-> fn, farm_name |-> None,
      client_name |-> None, record_filter |-> rf, embed |-> em, field_id |-> None] :
        o \in {IntArg(MaxOrgId), StrArg("007")}, fn \in {Some("North40")},
        rf \in {None, Some("PENDING")}, em \in {EmbedNone, EmbedStr("farms")}}

GetFieldArgs ==
    {[op |-> "get_field", org_id |-> o, field_name |-> None, farm_name |-> None,
      client_name |-> None, record_filter |-> None, embed |-> EmbedNone,
      field_id |-> Some(f)] : o \in OrgIds, f \in FieldIds}

-----------------------------------------------------------------------------
(* yarl URL: `/` appends a path segment and drops the query, `%` merges one *)
(* key into the query (update_query).                                       *)

NoUrl == [origin |-> "", path |-> << >>, query |-> << >>]

Div(u, segment) ==
    [u EXCEPT !.path = Append(@, segment), !.query = << >>]

HasKey(q, k) == \E i \in 1..Len(q) : q[i][1] = k

Mod(u, k, v) ==
    IF HasKey(u.query, k)
    THEN [u EXCEPT !.query =
            [i \in 1..Len(@) |-> IF @[i][1] = k THEN <<k, v>> ELSE @[i]]]
    ELSE [u EXCEPT !.query = Append(@, <<k, v>>)]

-----------------------------------------------------------------------------
(* The HTTP client: get(url) raises or returns a Response; a Response has   *)
(* raise_for_status() and json().                                           *)

Statuses == {200, 404}
Bodies   == {"{\"values\": []}", "{\"id\": 1}", "<html>"}
Responses == [status : Statuses, body : Bodies]

ConnectionError == [type |-> "ConnectionError", msg |-> "connection refused"]
HTTPError(r)    == [type |-> "HTTPError", msg |-> Decimal(r.status)]
JSONDecodeError == [type |-> "JSONDecodeError", msg |-> "Expecting value"]
ValueError(m)   == [type |-> "ValueError", msg |-> m]

IsOk(r)     == r.status >= 200 /\ r.status < 300
IsJson(r)   == r.body # "<html>"

NoOutcome   == [kind |-> "none",     value |-> None, error |-> None]
Returned(v) == [kind |-> "returned", value |-> Some(v), error |-> None]
Raised(e)   == [kind |-> "raised",   value |-> None, error |-> Some(e)]

-----------------------------------------------------------------------------
Init ==
    /\ RecordStatuses = {"ALL", "ACTIVE", "ARCHIVED"}
    /\ BASE_URL = [origin |-> "https://sandboxapi.deere.com",
                   path |-> <<"platform">>, query |-> << >>]
    /\ private = "session"
    /\ pc = [t \in Threads |-> "idle"]
    /\ args = [t \in Threads |-> NoArgs]
    /\ org_id = [t \in Threads |-> ""]
    /\ field_id = [t \in Threads |-> ""]
    /\ record_filter = [t \in Threads |-> ""]
    /\ url = [t \in Threads |-> NoUrl]
    /\ response = [t \in Threads |-> None]
    /\ outcome = [t \in Threads |-> NoOutcome]
    /\ calls = [t \in Threads |-> << >>]
    /\ sent = [t \in Threads |-> << >>]
    /\ raised = [t \in Threads |-> << >>]
    /\ prev = [t \in Threads |-> None]
    /\ entered = [t \in Threads |-> {}]

-----------------------------------------------------------------------------
(* Steps shared by the two methods; `next` is the pc after the step *)

Finish(t, o) ==
    /\ outcome' = [outcome EXCEPT ![t] = o]
    /\ pc' = [pc EXCEPT ![t] = "done"]

\* private_get that tries once more when the client raises
private_get_retry(t, next) ==
    \/ /\ calls' = [calls EXCEPT ![t] = @ \o <<"get", "get">>]
       /\ sent' = [sent EXCEPT ![t] = @ \o <<url[t], url[t]>>]
       /\ raised' = [raised EXCEPT ![t] = Append(@, ConnectionError)]
       /\ Finish(t, Raised(ConnectionError))
       /\ UNCHANGED response
    \/ /\ calls' = [calls EXCEPT ![t] = Append(@, "get")]
       /\ sent' = [sent EXCEPT ![t] = Append(@, url[t])]
       /\ \E r \in Responses :
            /\ response' = [response EXCEPT ![t] = Some(r)]
            /\ pc' = [pc EXCEPT ![t] = next]
            /\ UNCHANGED <<raised, outcome>>

\* response = self.private.get(url): the client raises, or returns a Response
private_get(t, next) ==
    /\ calls' = [calls EXCEPT ![t] = Append(@, "get")]
    /\ sent' = [sent EXCEPT ![t] = Append(@, url[t])]
    /\ \/ /\ raised' = [raised EXCEPT ![t] = Append(@, ConnectionError)]
          /\ Finish(t, Raised(ConnectionError))
          /\ UNCHANGED response
       \/ \E r \in Responses :
            /\ response' = [response EXCEPT ![t] = Some(r)]
            /\ pc' = [pc EXCEPT ![t] = next]
            /\ UNCHANGED <<raised, outcome>>

\* response.raise_for_status(): raises on a status that is not 2xx
raise_for_status(t, next) ==
    LET r == response[t][1] IN
    /\ calls' = [calls EXCEPT ![t] = Append(@, "raise_for_status")]
    /\ IF IsOk(r)
       THEN /\ pc' = [pc EXCEPT ![t] = next]
            /\ UNCHANGED <<raised, outcome>>
       ELSE /\ raised' = [raised EXCEPT ![t] = Append(@, HTTPError(r))]
            /\ Finish(t, Raised(HTTPError(r)))

\* return response.json(): the parsed body, or the parser's error
return_json(t) ==
    LET r == response[t][1] IN
    /\ calls' = [calls EXCEPT ![t] = Append(@, "json")]
    /\ IF IsJson(r)
       THEN /\ Finish(t, Returned(r.body))
            /\ UNCHANGED raised
       ELSE /\ raised' = [raised EXCEPT ![t] = Append(@, JSONDecodeError)]
            /\ Finish(t, Raised(JSONDecodeError))

-----------------------------------------------------------------------------
(* A thread that has finished a call is either called again with related  *)
(* arguments (the same ones, others that differ in embed alone, or in     *)
(* org_id alone with the same str()), and then remembers the previous     *)
(* call, or returns to its caller (Return), which may call it with any    *)
(* arguments.                                                             *)

Again(a) ==
    {[a EXCEPT !.embed = e] : e \in IF a.op = "get_fields" THEN Embeds ELSE {EmbedNone}}
    \cup {[a EXCEPT !.org_id = o] : o \in {x \in OrgIds : str(x) = str(a.org_id)}}

Remember(t, a) ==
    IF pc[t] = "done"
    THEN Some([args |-> args[t], sent |-> sent[t]])
    ELSE None

\* A caller enters a method: the parameters are bound, the locals are fresh.
Enter(t, a, rf, start) ==
    /\ pc[t] \in {"idle", "done"}
    /\ prev' = [prev EXCEPT ![t] = Remember(t, a)]
    /\ entered' = [entered EXCEPT ![t] = RecordStatuses]
    /\ args' = [args EXCEPT ![t] = a]
    /\ record_filter' = [record_filter EXCEPT ![t] = rf]
    /\ org_id' = [org_id EXCEPT ![t] = ""]
    /\ field_id' = [field_id EXCEPT ![t] = ""]
    /\ url' = [url EXCEPT ![t] = NoUrl]
    /\ response' = [response EXCEPT ![t] = None]
    /\ outcome' = [outcome EXCEPT ![t] = NoOutcome]
    /\ calls' = [calls EXCEPT ![t] = << >>]
    /\ sent' = [sent EXCEPT ![t] = << >>]
    /\ raised' = [raised EXCEPT ![t] = << >>]
    /\ pc' = [pc EXCEPT ![t] = start]
    /\ UNCHANGED <<RecordStatuses, self_vars>>

\* The call is over and its frame is gone.
Return(t) ==
    /\ pc[t] = "done"
    /\ pc' = [pc EXCEPT ![t] = "idle"]
    /\ args' = [args EXCEPT ![t] = NoArgs]
    /\ record_filter' = [record_filter EXCEPT ![t] = ""]
    /\ org_id' = [org_id EXCEPT ![t] = ""]
    /\ field_id' = [field_id EXCEPT ![t] = ""]
    /\ url' = [url EXCEPT ![t] = NoUrl]
    /\ response' = [response EXCEPT ![t] = None]
    /\ outcome' = [outcome EXCEPT ![t] = NoOutcome]
    /\ calls' = [calls EXCEPT ![t] = << >>]
    /\ sent' = [sent EXCEPT ![t] = << >>]
    /\ raised' = [raised EXCEPT ![t] = << >>]
    /\ prev' = [prev EXCEPT ![t] = None]
    /\ entered' = [entered EXCEPT ![t] = {}]
    /\ UNCHANGED <<RecordStatuses, self_vars>>

-----------------------------------------------------------------------------
(* FieldsMixin.get_fields *)

\* record_filter: str = RecordStatuses.ACTIVE.value
DefaultRecordFilter == "ACTIVE"

\* call_get_fields with ALL as the default of record_filter
call_get_fields_default_all(t, a) ==
    /\ a.op = "get_fields"
    /\ Enter(t, a,
             IF a.record_filter = None THEN "ALL" ELSE a.record_filter[1],
             "get_fields_build")

call_get_fields(t, a) ==
    /\ a.op = "get_fields"
    /\ Enter(t, a,
             IF a.record_filter = None THEN DefaultRecordFilter
                                       ELSE a.record_filter[1],
             "get_fields_build")

\* get_fields_build keeping the url on the instance, where every thread sees it
get_fields_build_shared(t) ==
    /\ pc[t] = "get_fields_build"
    /\ LET oid == str(args[t].org_id)
           u0  == Div(Div(Div(BASE_URL, "organizations"), oid), "fields")
           u1  == IF args[t].field_name # None
                  THEN Mod(u0, "fieldName", args[t].field_name[1]) ELSE u0
           u2  == IF args[t].farm_name # None
                  THEN Mod(u1, "farmName", args[t].farm_name[1]) ELSE u1
           u3  == IF args[t].client_name # None
                  THEN Mod(u2, "clientName", args[t].client_name[1]) ELSE u2
       IN /\ org_id' = [org_id EXCEPT ![t] = oid]
          /\ url' = [x \in Threads |-> u3]
    /\ pc' = [pc EXCEPT ![t] = "get_fields_check"]
    /\ UNCHANGED <<RecordStatuses, self_vars, args, field_id, record_filter,
                   response, outcome, calls, sent, raised, prev, entered>>

\* get_fields_build testing the filters for truth instead of `is not None`
get_fields_build_truthy(t) ==
    /\ pc[t] = "get_fields_build"
    /\ LET oid == str(args[t].org_id)
           u0  == Div(Div(Div(BASE_URL, "organizations"), oid), "fields")
           u1  == IF args[t].field_name \notin {None, Some("")}
                  THEN Mod(u0, "fieldName", args[t].field_name[1]) ELSE u0
           u2  == IF args[t].farm_name \notin {None, Some("")}
                  THEN Mod(u1, "farmName", args[t].farm_name[1]) ELSE u1
           u3  == IF args[t].client_name \notin {None, Some("")}
                  THEN Mod(u2, "clientName", args[t].client_name[1]) ELSE u2
       IN /\ org_id' = [org_id EXCEPT ![t] = oid]
          /\ url' = [url EXCEPT ![t] = u3]
    /\ pc' = [pc EXCEPT ![t] = "get_fields_check"]
    /\ UNCHANGED <<RecordStatuses, self_vars, args, field_id, record_filter,
                   response, outcome, calls, sent, raised, prev, entered>>

\* org_id = str(org_id); url = BASE_URL / ... ; the three optional filters
get_fields_build(t) ==
    /\ pc[t] = "get_fields_build"
    /\ LET oid == str(args[t].org_id)
           u0  == Div(Div(Div(BASE_URL, "organizations"), oid), "fields")
           u1  == IF args[t].field_name # None
                  THEN Mod(u0, "fieldName", args[t].field_name[1]) ELSE u0
           u2  == IF args[t].farm_name # None
                  THEN Mod(u1, "farmName", args[t].farm_name[1]) ELSE u1
           u3  == IF args[t].client_name # None
                  THEN Mod(u2, "clientName", args[t].client_name[1]) ELSE u2
       IN /\ org_id' = [org_id EXCEPT ![t] = oid]
          /\ url' = [url EXCEPT ![t] = u3]
    /\ pc' = [pc EXCEPT ![t] = "get_fields_check"]
    /\ UNCHANGED <<RecordStatuses, self_vars, args, field_id, record_filter,
                   response, outcome, calls, sent, raised, prev, entered>>

\* `v in RecordStatuses`, the membership test of the extendable enumeration
IsRecordStatus(v) == v \in RecordStatuses

\* get_fields_check without the else branch: an unknown value is sent as is
get_fields_check_unvalidated(t) ==
    /\ pc[t] = "get_fields_check"
    /\ url' = [url EXCEPT ![t] =
                 Mod(Mod(@, "recordFilter", record_filter[t]),
                     "embed", "clients,farms,boundaries")]
    /\ pc' = [pc EXCEPT ![t] = "get_fields_get"]
    /\ UNCHANGED <<RecordStatuses, self_vars, args, org_id, field_id, outcome,
                   record_filter, response, calls, sent, raised, prev, entered>>

\* get_fields_check against the three built-in values instead of the set
get_fields_check_builtin(t) ==
    /\ pc[t] = "get_fields_check"
    /\ IF record_filter[t] \in {"ALL", "ACTIVE", "ARCHIVED"}
       THEN /\ url' = [url EXCEPT ![t] =
                        Mod(Mod(@, "recordFilter", record_filter[t]),
                            "embed", "clients,farms,boundaries")]
            /\ pc' = [pc EXCEPT ![t] = "get_fields_get"]
            /\ UNCHANGED outcome
       ELSE /\ Finish(t, Raised(ValueError("Invalid record status: "
                                            \o record_filter[t])))
            /\ UNCHANGED url
    /\ UNCHANGED <<RecordStatuses, self_vars, args, org_id, field_id,
                   record_filter, response, calls, sent, raised, prev, entered>>

\* get_fields_check that honours a string passed as embed
get_fields_check_embed(t) ==
    /\ pc[t] = "get_fields_check"
    /\ IF IsRecordStatus(record_filter[t])
       THEN /\ url' = [url EXCEPT ![t] =
                        Mod(Mod(@, "recordFilter", record_filter[t]), "embed",
                            IF args[t].embed.s # None THEN args[t].embed.s[1]
                            ELSE "clients,farms,boundaries")]
            /\ pc' = [pc EXCEPT ![t] = "get_fields_get"]
            /\ UNCHANGED outcome
       ELSE /\ Finish(t, Raised(ValueError("Invalid record status: "
                                            \o record_filter[t])))
            /\ UNCHANGED url
    /\ UNCHANGED <<RecordStatuses, self_vars, args, org_id, field_id,
                   record_filter, response, calls, sent, raised, prev, entered>>

\* if record_filter in RecordStatuses: ... else: raise ValueError(...);
\* url = url % {"embed": "clients,farms,boundaries"}
get_fields_check(t) ==
    /\ pc[t] = "get_fields_check"
    /\ IF IsRecordStatus(record_filter[t])
       THEN /\ url' = [url EXCEPT ![t] =
                        Mod(Mod(@, "recordFilter", record_filter[t]),
                            "embed", "clients,farms,boundaries")]
            /\ pc' = [pc EXCEPT ![t] = "get_fields_get"]
            /\ UNCHANGED outcome
       ELSE /\ Finish(t, Raised(ValueError("Invalid record status: "
                                            \o record_filter[t])))
            /\ UNCHANGED url
    /\ UNCHANGED <<RecordStatuses, self_vars, args, org_id, field_id,
                   record_filter, response, calls, sent, raised, prev, entered>>

get_fields_get(t) ==
    /\ pc[t] = "get_fields_get"
    /\ private_get(t, "get_fields_status")
    /\ UNCHANGED <<RecordStatuses, self_vars, args, org_id, field_id,
                   record_filter, url, prev, entered>>

\* get_fields_status without the call of raise_for_status
get_fields_status_unchecked(t) ==
    /\ pc[t] = "get_fields_status"
    /\ pc' = [pc EXCEPT ![t] = "get_fields_return"]
    /\ UNCHANGED <<RecordStatuses, self_vars, args, org_id, field_id, calls,
                   raised, outcome, record_filter, url, response, sent, prev,
                   entered>>

get_fields_status(t) ==
    /\ pc[t] = "get_fields_status"
    /\ raise_for_status(t, "get_fields_return")
    /\ UNCHANGED <<RecordStatuses, self_vars, args, org_id, field_id,
                   record_filter, url, response, sent, prev, entered>>

get_fields_return(t) ==
    /\ pc[t] = "get_fields_return"
    /\ return_json(t)
    /\ UNCHANGED <<RecordStatuses, self_vars, args, org_id, field_id,
                   record_filter, url, response, sent, prev, entered>>

-----------------------------------------------------------------------------
(* FieldsMixin.get_field *)

call_get_field(t, a) ==
    /\ a.op = "get_field"
    /\ Enter(t, a, "", "get_field_build")

\* get_field_build that asks for the embeds as get_fields does
get_field_build_embed(t) ==
    /\ pc[t] = "get_field_build"
    /\ LET oid == str(args[t].org_id)
           fid == str(StrArg(args[t].field_id[1]))
       IN /\ org_id' = [org_id EXCEPT ![t] = oid]
          /\ field_id' = [field_id EXCEPT ![t] = fid]
          /\ url' = [url EXCEPT ![t] =
                Mod(Div(Div(Div(Div(BASE_URL, "organizations"), oid), "fields"), fid),
                    "embed", "clients,farms,boundaries")]
    /\ pc' = [pc EXCEPT ![t] = "get_field_get"]
    /\ UNCHANGED <<RecordStatuses, self_vars, args, record_filter,
                   response, outcome, calls, sent, raised, prev, entered>>

\* org_id = str(org_id); field_id = str(field_id); url = BASE_URL / ...
get_field_build(t) ==
    /\ pc[t] = "get_field_build"
    /\ LET oid == str(args[t].org_id)
           fid == str(StrArg(args[t].field_id[1]))
       IN /\ org_id' = [org_id EXCEPT ![t] = oid]
          /\ field_id' = [field_id EXCEPT ![t] = fid]
          /\ url' = [url EXCEPT ![t] =
                Div(Div(Div(Div(BASE_URL, "organizations"), oid), "fields"), fid)]
    /\ pc' = [pc EXCEPT ![t] = "get_field_get"]
    /\ UNCHANGED <<RecordStatuses, self_vars, args, record_filter,
                   response, outcome, calls, sent, raised, prev, entered>>

get_field_get(t) ==
    /\ pc[t] = "get_field_get"
    /\ private_get(t, "get_field_status")
    /\ UNCHANGED <<RecordStatuses, self_vars, args, org_id, field_id,
                   record_filter, url, prev, entered>>

get_field_status(t) ==
    /\ pc[t] = "get_field_status"
    /\ raise_for_status(t, "get_field_return")
    /\ UNCHANGED <<RecordStatuses, self_vars, args, org_id, field_id,
                   record_filter, url, response, sent, prev, entered>>

get_field_return(t) ==
    /\ pc[t] = "get_field_return"
    /\ return_json(t)
    /\ UNCHANGED <<RecordStatuses, self_vars, args, org_id, field_id,
                   record_filter, url, response, sent, prev, entered>>

-----------------------------------------------------------------------------
(* RecordStatuses is extendable: a caller registers a new accepted value *)

Register(v) ==
    /\ v \notin RecordStatuses
    /\ RecordStatuses' = RecordStatuses \cup {v}
    /\ UNCHANGED <<self_vars, pc, args, org_id, field_id, record_filter, url,
                   response, outcome, calls, sent, raised, prev, entered>>

-----------------------------------------------------------------------------
\* The arguments thread t may be called with
Inputs(t, All) ==
    IF pc[t] = "idle" THEN All
    ELSE IF pc[t] = "done" THEN Again(args[t]) ELSE {}

Step(t) ==
    \/ get_fields_build(t)
    \/ get_fields_check(t)
    \/ get_fields_get(t)
    \/ get_fields_status(t)
    \/ get_fields_return(t)
    \/ get_field_build(t)
    \/ get_field_get(t)
    \/ get_field_status(t)
    \/ get_field_return(t)
    \/ Return(t)

\* One caller
Next ==
    \/ \E t \in Main : \E a \in Inputs(t, GetFieldsArgs) : call_get_fields(t, a)
    \/ \E t \in Main : \E a \in Inputs(t, GetFieldArgs) : call_get_field(t, a)
    \/ \E t \in Main : Step(t)
    \/ \E v \in Registrable : Register(v)

Spec == Init /\ [][Next]_vars

\* Two threads call the methods of one instance side by side
NextThreads ==
    \/ \E t \in Threads : \E a \in IF pc[t] = "idle" THEN ThreadArgs ELSE {} :
            call_get_fields(t, a)
    \/ \E t \in Threads :
         \E a \in IF pc[t] = "idle"
                   THEN {x \in GetFieldArgs : x.field_id = Some("42") /\ ~x.org_id.isInt}
                   ELSE {} :
            call_get_field(t, a)
    \/ \E t \in Threads : Step(t)
    \/ \E v \in Registrable : Register(v)

SpecThreads == Init /\ [][NextThreads]_vars

-----------------------------------------------------------------------------
(* Vocabulary of the properties *)

Range(q) == {q[i] : i \in 1..Len(q)}
Keys(q)  == [i \in 1..Len(q) |-> q[i][1]]

\* the string `sub` occurs in the string `text`
Contains(text, sub) ==
    \E i \in 1..(Len(text) + 1) : SubSeq(text, i, i + Len(sub) - 1) = sub

\* the integer a string of decimal digits denotes
DigitValue(c) ==
    CASE c = "0" -> 0 [] c = "1" -> 1 [] c = "2" -> 2 [] c = "3" -> 3
      [] c = "4" -> 4 [] c = "5" -> 5 [] c = "6" -> 6 [] c = "7" -> 7
      [] c = "8" -> 8 [] c = "9" -> 9

IsDigits(s) ==
    /\ Len(s) >= 1
    /\ \A i \in 1..Len(s) :
         SubSeq(s, i, i) \in {"0", "1", "2", "3", "4", "5", "6", "7", "8", "9"}
    /\ Len(s) > 1 => SubSeq(s, 1, 1) # "0"

RECURSIVE Value(_)
Value(s) ==
    IF Len(s) = 0 THEN 0
    ELSE 10 * Value(SubSeq(s, 1, Len(s) - 1)) + DigitValue(SubSeq(s, Len(s), Len(s)))

\* s is the text Python prints for the organization ID x
IsTextOf(s, x) ==
    IF ~x.isInt THEN s = x.s
    ELSE IF x.n < 0
    THEN /\ Len(s) >= 2
         /\ SubSeq(s, 1, 1) = "-"
         /\ IsDigits(SubSeq(s, 2, Len(s)))
         /\ Value(SubSeq(s, 2, Len(s))) = 0 - x.n
    ELSE IsDigits(s) /\ Value(s) = x.n

\* the query get_fields is to send for the arguments a
FilterPairs(key, arg) == IF arg = None THEN << >> ELSE << <<key, arg[1]>> >>

ExpectedKeys(a) ==
    SelectSeq(<<"fieldName", "farmName", "clientName", "recordFilter", "embed">>,
              LAMBDA k : CASE k = "fieldName"  -> a.field_name # None
                           [] k = "farmName"   -> a.farm_name # None
                           [] k = "clientName" -> a.client_name # None
                           [] OTHER            -> TRUE)

\* u is BASE_URL followed by the path segments after the organization ID x
IsUnder(u, x, rest) ==
    /\ u.origin = BASE_URL.origin
    /\ Len(u.path) = Len(BASE_URL.path) + 2 + Len(rest)
    /\ SubSeq(u.path, 1, Len(BASE_URL.path)) = BASE_URL.path
    /\ u.path[Len(BASE_URL.path) + 1] = "organizations"
    /\ IsTextOf(u.path[Len(BASE_URL.path) + 2], x)
    /\ SubSeq(u.path, Len(BASE_URL.path) + 3, Len(u.path)) = rest

\* the record_filter a get_fields call asks for
Asked(a) == IF a.record_filter = None THEN "ACTIVE" ELSE a.record_filter[1]

IsGetFields(t) == args[t].op = "get_fields"
IsGetField(t)  == args[t].op = "get_field"

\* t's call has invoked private.get and the client has answered
PastGet(t) ==
    \/ pc[t] \in {"get_fields_status", "get_fields_return",
                  "get_field_status", "get_field_return"}
    \/ pc[t] = "done" /\ calls[t] # << >>

\* t's get_fields call raised the ValueError of the record_filter check
Rejected(t) ==
    /\ pc[t] = "done"
    /\ outcome[t].kind = "raised"
    /\ outcome[t].error[1].type = "ValueError"

Gets(t) == Len(SelectSeq(calls[t], LAMBDA m : m = "get"))


-----------------------------------------------------------------------------
(* C1: a get_fields call whose record_filter is not in RecordStatuses ends  *)
(* with a ValueError whose message contains the value, whatever the other  *)
(* arguments are, and private.get is not invoked during the call.          *)
C1_UnknownRecordFilterRejected ==
    \A t \in Threads :
        (/\ IsGetFields(t)
         /\ pc[t] \notin {"get_fields_build", "get_fields_check"}
         /\ record_filter[t] \notin RecordStatuses)
        => /\ Rejected(t)
           /\ Contains(outcome[t].error[1].msg, Asked(args[t]))
           /\ calls[t] = << >>
           /\ sent[t] = << >>

C1_Witness ==
    \E t \in Threads :
        /\ Rejected(t)
        /\ args[t].record_filter = Some("BOGUS")
        /\ args[t].field_name # None
        /\ outcome[t].error[1].msg = "Invalid record status: BOGUS"
        /\ calls[t] = << >>

(* C2: a get_fields call whose record_filter is ALL, ACTIVE or ARCHIVED, or *)
(* a value registered before the call, issues a GET whose query contains   *)
(* recordFilter=<that value>; with record_filter omitted it contains       *)
(* recordFilter=ACTIVE.                                                    *)
C2_RecordFilterSent ==
    \A t \in Threads :
        (/\ IsGetFields(t)
         /\ Asked(args[t]) \in entered[t]
         /\ pc[t] \notin {"get_fields_build", "get_fields_check", "get_fields_get"})
        => /\ Len(sent[t]) = 1
           /\ <<"recordFilter", Asked(args[t])>> \in Range(sent[t][1].query)
           /\ Len(SelectSeq(sent[t][1].query, LAMBDA kv : kv[1] = "recordFilter")) = 1
           /\ {"ALL", "ACTIVE", "ARCHIVED"} \subseteq entered[t]

C2_Witness ==
    \E t \in Threads :
        /\ IsGetFields(t)
        /\ pc[t] = "done"
        /\ args[t].record_filter = Some("PENDING")
        /\ "PENDING" \in entered[t]
        /\ Len(sent[t]) = 1
        /\ <<"recordFilter", "PENDING">> \in Range(sent[t][1].query)

(* C3: a get_fields call that passes the record_filter check and every      *)
(* get_field call invoke private.get exactly once, also when the client    *)
(* raises or answers with a status that is not 2xx; a call repeated with   *)
(* the same arguments issues its own request.                              *)
C3_ExactlyOneGet ==
    \A t \in Threads :
        /\ Gets(t) <= 1
        /\ Len(sent[t]) = Gets(t)
        /\ (PastGet(t) \/ (pc[t] = "done" /\ ~Rejected(t))) => Gets(t) = 1
        /\ (/\ prev[t] # None
            /\ prev[t][1].args = args[t]
            /\ Len(prev[t][1].sent) = 1
            /\ pc[t] = "done"
            /\ ~Rejected(t))
           => sent[t] = prev[t][1].sent

C3_Witness ==
    \E t \in Threads :
        /\ pc[t] = "done"
        /\ prev[t] # None
        /\ prev[t][1].args = args[t]
        /\ Len(prev[t][1].sent) = 1
        /\ outcome[t] = Raised(ConnectionError)
        /\ Gets(t) = 1

(* C4: when private.get raises or the status is not 2xx, the call ends with *)
(* the very error the client raised, returns no value and json() is not    *)
(* called; on a 2xx status the call returns the value of json() as it is;  *)
(* raise_for_status() is called before json().                             *)
C4_ClientErrorsPropagate ==
    \A t \in Threads :
        /\ \E n \in 0..3 : calls[t] = SubSeq(<<"get", "raise_for_status", "json">>, 1, n)
        /\ raised[t] # << >>
           => /\ pc[t] = "done"
              /\ outcome[t] = Raised(raised[t][1])
              /\ raised[t][1].type \in {"ConnectionError", "HTTPError"}
                    => "json" \notin Range(calls[t])
        /\ (response[t] # None /\ ~IsOk(response[t][1]) /\ pc[t] = "done")
           => /\ outcome[t] = Raised(HTTPError(response[t][1]))
              /\ raised[t] = <<HTTPError(response[t][1])>>
              /\ "json" \notin Range(calls[t])
        /\ (pc[t] = "done" /\ response[t] = None /\ ~Rejected(t))
           => /\ outcome[t] = Raised(ConnectionError)
              /\ raised[t] = <<ConnectionError>>
        /\ (pc[t] = "done" /\ response[t] # None /\ IsOk(response[t][1])
              /\ IsJson(response[t][1]))
           => outcome[t] = Returned(response[t][1].body)
        /\ outcome[t].kind = "returned"
           => /\ response[t] # None
              /\ IsOk(response[t][1])
              /\ outcome[t].value = Some(response[t][1].body)

C4_Witness ==
    \E t \in Threads :
        /\ pc[t] = "done"
        /\ response[t] # None
        /\ response[t][1].status = 404
        /\ outcome[t] = Raised(HTTPError(response[t][1]))
        /\ calls[t] = <<"get", "raise_for_status">>


(* C5: the request of a valid get_fields call goes to                       *)
(* {base}/organizations/{org_id}/fields, and its query holds the key        *)
(* fieldName, farmName, clientName with the given value exactly when that   *)
(* argument is not None; which keys there are, and in which order, is a     *)
(* function of the arguments that are present.                              *)
C5_OptionalFiltersInQuery ==
    \A t \in Threads :
        (IsGetFields(t) /\ (pc[t] = "get_fields_get" \/ sent[t] # << >>))
        => LET u == IF sent[t] # << >> THEN sent[t][1] ELSE url[t]
               q == u.query
           IN /\ IsUnder(u, args[t].org_id, <<"fields">>)
              /\ HasKey(q, "fieldName") <=> args[t].field_name # None
              /\ HasKey(q, "farmName") <=> args[t].farm_name # None
              /\ HasKey(q, "clientName") <=> args[t].client_name # None
              /\ args[t].field_name # None
                    => <<"fieldName", args[t].field_name[1]>> \in Range(q)
              /\ args[t].farm_name # None
                    => <<"farmName", args[t].farm_name[1]>> \in Range(q)
              /\ args[t].client_name # None
                    => <<"clientName", args[t].client_name[1]>> \in Range(q)
              /\ Keys(q) = ExpectedKeys(args[t])

C5_Witness ==
    \E t \in Threads :
        /\ IsGetFields(t)
        /\ Len(sent[t]) = 1
        /\ args[t].field_name = Some("")
        /\ args[t].farm_name = None
        /\ args[t].client_name = Some("Acme")
        /\ Keys(sent[t][1].query) = <<"fieldName", "clientName", "recordFilter", "embed">>

(* C6: every request of get_fields carries embed=clients,farms,boundaries, *)
(* whatever the embed argument is: two calls that differ in embed alone     *)
(* issue the same request.                                                  *)
C6_EmbedArgumentIgnored ==
    \A t \in Threads :
        (IsGetFields(t) /\ sent[t] # << >>)
        => /\ SelectSeq(sent[t][1].query, LAMBDA kv : kv[1] = "embed")
                = << <<"embed", "clients,farms,boundaries">> >>
           /\ (/\ prev[t] # None
               /\ prev[t][1].args = [args[t] EXCEPT !.embed = prev[t][1].args.embed]
               /\ prev[t][1].sent # << >>)
              => prev[t][1].sent = sent[t]

C6_Witness ==
    \E t \in Threads :
        /\ IsGetFields(t)
        /\ prev[t] # None
        /\ prev[t][1].args.embed = EmbedStr("farms")
        /\ args[t] = [prev[t][1].args EXCEPT !.embed = EmbedList(<<"clients", "farms">>)]
        /\ Len(sent[t]) = 1
        /\ prev[t][1].sent = sent[t]

(* C7, as claimed: each of fieldName, farmName, clientName, recordFilter    *)
(* and embed is left out of the request when its argument is absent and     *)
(* carries the given value when it is present.                              *)
C7_AsClaimed ==
    \A t \in Threads :
        (IsGetFields(t) /\ sent[t] # << >>)
        => LET q == sent[t][1].query
           IN /\ HasKey(q, "fieldName") <=> args[t].field_name # None
              /\ HasKey(q, "farmName") <=> args[t].farm_name # None
              /\ HasKey(q, "clientName") <=> args[t].client_name # None
              /\ HasKey(q, "recordFilter") <=> args[t].record_filter # None
              /\ HasKey(q, "embed") <=> args[t].embed # EmbedNone
              /\ args[t].embed.s # None => <<"embed", args[t].embed.s[1]>> \in Range(q)

(* C7, amended: fieldName, farmName and clientName are left out when absent *)
(* and carry the given value when present; recordFilter is never left out:  *)
(* it carries the given value, and ACTIVE when the argument is absent;      *)
(* embed is never left out and carries clients,farms,boundaries whatever    *)
(* the argument is.                                                         *)
C7_FiltersAsSent ==
    \A t \in Threads :
        (IsGetFields(t) /\ sent[t] # << >>)
        => sent[t][1].query =
                FilterPairs("fieldName", args[t].field_name)
             \o FilterPairs("farmName", args[t].farm_name)
             \o FilterPairs("clientName", args[t].client_name)
             \o << <<"recordFilter",
                     IF args[t].record_filter = None THEN "ACTIVE"
                     ELSE args[t].record_filter[1]>> >>
             \o << <<"embed", "clients,farms,boundaries">> >>

C7_Witness ==
    \E t \in Threads :
        /\ IsGetFields(t)
        /\ args[t].field_name = None
        /\ args[t].farm_name = None
        /\ args[t].client_name = None
        /\ args[t].record_filter = None
        /\ args[t].embed = EmbedNone
        /\ Len(sent[t]) = 1
        /\ sent[t][1].query = << <<"recordFilter", "ACTIVE">>,
                                 <<"embed", "clients,farms,boundaries">> >>

(* C8: get_field sends its GET to                                           *)
(* {base}/organizations/{org_id}/fields/{field_id} with an empty query and  *)
(* validates nothing: no call ends before its request is issued, whatever   *)
(* RecordStatuses holds.                                                    *)
C8_GetFieldRequest ==
    \A t \in Threads :
        IsGetField(t)
        => /\ pc[t] # "get_field_build"
              => /\ IsUnder(url[t], args[t].org_id, <<"fields", args[t].field_id[1]>>)
                 /\ url[t].query = << >>
           /\ sent[t] \in {<< >>, <<url[t]>>}
           /\ pc[t] = "done"
              => /\ sent[t] = <<url[t]>>
                 /\ calls[t][1] = "get"
                 /\ outcome[t].kind = "raised" => outcome[t].error = Some(raised[t][1])

C8_Witness ==
    \E t \in Threads :
        /\ IsGetField(t)
        /\ pc[t] = "done"
        /\ "PENDING" \in RecordStatuses
        /\ args[t].org_id = IntArg(MaxOrgId)
        /\ Len(sent[t]) = 1
        /\ sent[t][1].path[Len(sent[t][1].path)] = "abc-guid"
        /\ sent[t][1].query = << >>

(* C9: get_fields and get_field turn the organization ID into a string      *)
(* before it becomes a path segment: the segment is the decimal text of an  *)
(* integer ID, and a call with the integer n and a call with the decimal    *)
(* text of n, the other arguments equal, issue the same request.            *)
C9_OrgIdNormalized ==
    \A t \in Threads :
        (args[t].op # "none" /\ pc[t] \notin {"get_fields_build", "get_field_build"})
        => /\ IsTextOf(org_id[t], args[t].org_id)
           /\ url[t].path[Len(BASE_URL.path) + 2] = org_id[t]
           /\ (/\ prev[t] # None
               /\ prev[t][1].args = [args[t] EXCEPT !.org_id = prev[t][1].args.org_id]
               /\ prev[t][1].args.org_id.isInt
               /\ ~args[t].org_id.isInt
               /\ IsTextOf(args[t].org_id.s, prev[t][1].args.org_id)
               /\ prev[t][1].sent # << >>
               /\ sent[t] # << >>)
              => prev[t][1].sent = sent[t]

C9_Witness ==
    \E t \in Threads :
        /\ prev[t] # None
        /\ prev[t][1].args.org_id = IntArg(MaxOrgId)
        /\ ~args[t].org_id.isInt
        /\ Value(args[t].org_id.s) = MaxOrgId
        /\ Len(sent[t]) = 1
        /\ prev[t][1].sent = sent[t]
        /\ sent[t][1].path[Len(BASE_URL.path) + 2] = args[t].org_id.s


(* C10: get_fields and get_field leave BASE_URL, private and RecordStatuses *)
(* as they are, whether they succeed or fail; so when threads run calls     *)
(* side by side and no value is registered during a call, the call issues   *)
(* the request and ends the way it does when it runs alone: both are        *)
(* decided by its own arguments and the client's answer to its own request. *)
AloneRequest(t, u) ==
    IF IsGetFields(t)
    THEN /\ IsUnder(u, args[t].org_id, <<"fields">>)
         /\ u.query = FilterPairs("fieldName", args[t].field_name)
                    \o FilterPairs("farmName", args[t].farm_name)
                    \o FilterPairs("clientName", args[t].client_name)
                    \o << <<"recordFilter", Asked(args[t])>>,
                          <<"embed", "clients,farms,boundaries">> >>
    ELSE /\ IsUnder(u, args[t].org_id, <<"fields", args[t].field_id[1]>>)
         /\ u.query = << >>

AloneOutcome(t) ==
    IF IsGetFields(t) /\ Asked(args[t]) \notin entered[t]
    THEN /\ Rejected(t)
         /\ sent[t] = << >>
    ELSE /\ Len(sent[t]) = 1
         /\ AloneRequest(t, sent[t][1])
         /\ outcome[t] = IF raised[t] # << >> THEN Raised(raised[t][1])
                         ELSE Returned(response[t][1].body)

C10_CallsIndependent ==
    /\ [][(\E t \in Threads : pc'[t] # pc[t])
            => UNCHANGED <<BASE_URL, private, RecordStatuses>>]_vars
    /\ [](\A t \in Threads :
            (args[t].op # "none" /\ entered[t] = RecordStatuses)
            => /\ pc[t] \in {"get_fields_get", "get_field_get"}
                  => AloneRequest(t, url[t]) /\ sent[t] = << >>
               /\ PastGet(t) => sent[t] = <<url[t]>> /\ AloneRequest(t, url[t])
               /\ pc[t] = "done" => AloneOutcome(t))

C10_Witness ==
    /\ pc["t1"] = "get_fields_status"
    /\ pc["t2"] = "get_field_status"
    /\ entered["t1"] = RecordStatuses
    /\ entered["t2"] = RecordStatuses
    /\ "PENDING" \in RecordStatuses
    /\ sent["t1"] # sent["t2"]
    /\ response["t1"] # response["t2"]

====
